---- MODULE Spec2Model ----
(***************************************************************************)
(* Model of the p2p layer of node-crawler: the Crawler (pkg/p2p/p2p.go)    *)
(* and the ProbeBackend with its protocol Run function, session handler    *)
(* and inbound-message handler (pkg/p2p/protocol.go).                      *)
(*                                                                         *)
(* One process per peer session (a Run invocation of the transport), one   *)
(* aggregation goroutine started by Crawler.Start, and one caller that     *)
(* calls Start and then Stop.  The transport (p2p.Server), the peer set    *)
(* and the peer object are not part of the two source files; what the      *)
(* model assumes of them is stated where they are used.                    *)
(***************************************************************************)
EXTENDS Integers, Sequences, FiniteSets, TLC

\* ---------------------------------------------------------------- bounds
MaxWorkers == 1     \* largest value of the workers argument of NewCrawler
MaxStops == 2       \* calls of Crawler.Stop
MaxEpochRecs == 2   \* epoch records of a genesis dataset

\* the Run invocations the transport makes, in the order it makes them
Sessions == {1, 2}
\* the peer identifiers the sessions connect from
Nodes == {"a", "b"}

\* ------------------------------------------------------ program constants
\* updated%10 of the aggregation loop
UpdateEvery == 10
\* protocolMaxMsgSize and hardLimitItems, scaled down: only the comparisons
\* with them matter
protocolMaxMsgSize == 3
hardLimitItems == 2
\* hash.Event keeps the epoch in its leading bytes: a hash is
\* epoch * HashTail + tail
HashTail == 4

\* ------------------------------------------------------------ peer status
PeerUnknown == "Unknown"
PeerFetching == "Fetching"
PeerUseless == "Useless"
PeerEvil == "Evil"
Terminal == {PeerUseless, PeerEvil}
Statuses == {PeerUnknown, PeerFetching, PeerUseless, PeerEvil}

\* ------------------------------------------------------------- messages
Epochs == {0, 1}
BlockIdxs == {0, 1}
AtroposHashes == {1, HashTail + 3}

\* hash.Event.Epoch(): the epoch a last-block hash belongs to
EpochOf(h) == h \div HashTail

PeerProgress == [Epoch : Epochs, LastBlockIdx : BlockIdxs, LastBlockAtropos : AtroposHashes]
ZeroProgress == [Epoch |-> 0, LastBlockIdx |-> 0, LastBlockAtropos |-> 0]

PlainCodes ==
    {"EvmTxsMsg", "NewEvmTxHashesMsg", "GetEvmTxsMsg", "RequestEventsStream",
     "RequestBVsStream", "BVsStreamResponse", "RequestBRsStream",
     "BRsStreamResponse", "RequestEPsStream", "EPsStreamResponse"}
ListCodes == {"EventsMsg", "NewEventIDsMsg", "GetEventsMsg"}
Codes ==
    PlainCodes \cup ListCodes
        \cup {"HandshakeMsg", "ProgressMsg", "EventsStreamResponse", "UnknownCode"}

ItemCounts == {0, 1, hardLimitItems, hardLimitItems + 1}

\* The payload of a message: whether it decodes, and what it decodes to.
\* Progress is the triple of a progress message, Items the length of an
\* event / announce / request list, IDs and Events the lengths of the two
\* lists of a dagChunk.
NoPayload == [Decodes |-> TRUE, Progress |-> ZeroProgress, Items |-> 0, IDs |-> 0, Events |-> 0]
Garbled == [NoPayload EXCEPT !.Decodes = FALSE]

Payloads(code) ==
    CASE code = "ProgressMsg" ->
            {Garbled} \cup {[NoPayload EXCEPT !.Progress = p] : p \in PeerProgress}
      [] code \in ListCodes ->
            {Garbled} \cup {[NoPayload EXCEPT !.Items = n] : n \in ItemCounts}
      [] code = "EventsStreamResponse" ->
            {Garbled} \cup {[NoPayload EXCEPT !.IDs = i, !.Events = e] : i \in 0..1, e \in 0..1}
      [] OTHER -> {NoPayload}

\* One well-formed payload of each code, for the oversized messages.
Sample(code) ==
    CASE code = "ProgressMsg" ->
            [NoPayload EXCEPT
                !.Progress = [Epoch |-> 1, LastBlockIdx |-> 1, LastBlockAtropos |-> 1]]
      [] code \in ListCodes -> [NoPayload EXCEPT !.Items = 1]
      [] code = "EventsStreamResponse" -> [NoPayload EXCEPT !.Events = 1]
      [] OTHER -> NoPayload

\* The messages a peer sends: of each code, every payload at the largest
\* admissible size, and one message beyond it.
Messages ==
    UNION {{[Code |-> c, Size |-> protocolMaxMsgSize, Payload |-> pl] : pl \in Payloads(c)}
              \cup {[Code |-> c, Size |-> protocolMaxMsgSize + 1, Payload |-> Sample(c)]}
           : c \in Codes}

\* what p.rw.ReadMsg() returns: a message, or an error when the connection
\* is torn down
NoMsg == [Code |-> "none", Size |-> 0, Payload |-> NoPayload]
ReadResults ==
    {[ok |-> TRUE, msg |-> m] : m \in Messages} \cup {[ok |-> FALSE, msg |-> NoMsg]}

\* -------------------------------------------------------------- genesis
\* What LoadGenesis reads of genesis.Genesis(): the declared network ID and
\* name, the genesis ID, and the epoch records in the order ForEach visits
\* them.  Of an epoch record: the epoch and rules of its EpochState, the
\* last block of its BlockState.
NetworkIDs == {1, 2}
NetworkNames == {"main", "test"}
UpgradeSets == {0, 1}
GenesisEpochs == {1, 2}
LastBlocks == {[Idx |-> 0, Atropos |-> 1], [Idx |-> 1, Atropos |-> HashTail + 3]}

Rules == [NetworkID : NetworkIDs, Name : NetworkNames, Upgrades : UpgradeSets]
EpochRecords ==
    [EpochState : [Epoch : GenesisEpochs, Rules : Rules],
     BlockState : [LastBlock : LastBlocks]]

RECURSIVE SeqsUpTo(_, _)
SeqsUpTo(S, n) ==
    IF n = 0 THEN {<<>>}
    ELSE LET shorter == SeqsUpTo(S, n - 1)
         IN  shorter \cup {Append(q, x) : q \in {t \in shorter : Len(t) = n - 1}, x \in S}

GenesisSets ==
    [NetworkID : {1}, NetworkName : {"main"}, GenesisID : {7},
     Epochs : SeqsUpTo(EpochRecords, MaxEpochRecs)]

\* the dataset the crawler of the main specification was built from
SampleGenesis ==
    [NetworkID |-> 1, NetworkName |-> "main", GenesisID |-> 7,
     Epochs |-> <<[EpochState |-> [Epoch |-> 2,
                                   Rules |-> [NetworkID |-> 1, Name |-> "main", Upgrades |-> 1]],
                   BlockState |-> [LastBlock |-> [Idx |-> 1, Atropos |-> HashTail + 3]]]>>]

\* the nil pointers and zero values of LoadGenesis and of a new backend
NilES == [Epoch |-> 0, Rules |-> [NetworkID |-> 0, Name |-> "", Upgrades |-> 0]]
NilBS == [LastBlock |-> [Idx |-> 0, Atropos |-> 0]]
NilRules == NilES.Rules
NilNodeInfo == [Network |-> 0, Genesis |-> 0, Epoch |-> 0, NumOfBlocks |-> 0]
NilChain == <<>>

\* ---------------------------------------------------------------- state
VARIABLES
    callerPc,       \* where the caller of Start / Stop is
    stopCalls,      \* Stop() calls begun
    stopReturns,    \* Stop() calls that returned
    serverRunning,  \* c.server is started and not stopped
    panic,          \* "none", or the runtime panic that ended the process
    quitSync,       \* b.quitSync: "open" or "closed"
    done,           \* c.done: "open" or "closed"
    wg,             \* the counter of b.wg
    peers,          \* b.peers: the registered sessions
    workers,        \* capacity of c.nodes (= b.output)
    genesis,        \* the dataset genesis.Genesis() returns
    loadPc,         \* LoadGenesis: "start", "done" or "panicked"
    Progress,       \* b.Progress
    NodeInfo,       \* b.NodeInfo
    Opera,          \* b.Opera
    Chain,          \* b.Chain: the upgrade heights its config is made of
    nodes,          \* content of c.nodes
    aggPc,          \* the aggregation goroutine: "none", "loop", "exited"
    updated,        \* its local counter
    catalogue,      \* its NodeSet (the identifiers in it)
    resultCalls,    \* onUpdatedSet invocations made on a received result
    finalCalls,     \* onUpdatedSet invocations made on the stop signal
    consumed,       \* per session: records of it the loop has merged
    pc,             \* per session: position of its Run invocation
    id,             \* per session: p.id
    Status,         \* per session: p.Status
    progress,       \* per session: p.progress
    ret,            \* per session: what Run returned
    emitted,        \* per session: records it has put on b.output
    firstTerminal   \* history: the session whose status became terminal first (0: none)

crawlerVars == <<callerPc, stopCalls, stopReturns, serverRunning, panic, done>>
backendVars == <<quitSync, wg, peers>>
handshakeInfo == <<Progress, NodeInfo, Opera, Chain>>
\* what NewCrawler fixes: nothing assigns these once it has returned
built == <<workers, genesis, loadPc, handshakeInfo>>
queueVars == <<built, nodes>>
aggVars == <<aggPc, updated, catalogue, resultCalls, finalCalls, consumed>>
peerVars == <<pc, id, Status, progress, ret, emitted, firstTerminal>>
vars == <<crawlerVars, backendVars, queueVars, aggVars, peerVars>>

NoNode == "none"

Record(s) == [sess |-> s, N |-> id[s], Blockheight |-> progress[s].LastBlockIdx]

\* ---------------------------------------------------------- LoadGenesis
\* The check the ForEach callback makes of an epoch record, with && for ||.
Mismatch_Both(g, es) ==
    es.Rules.NetworkID # g.NetworkID /\ es.Rules.Name # g.NetworkName

\* The check the ForEach callback makes of an epoch record.
Mismatch(g, es) ==
    es.Rules.NetworkID # g.NetworkID \/ es.Rules.Name # g.NetworkName

\* the locals of LoadGenesis before the iteration
NoneVisited ==
    [panic |-> "none", hh |-> <<>>, lastES |-> NilES, firstES |-> NilES, firstBS |-> NilBS]

\* The ForEach callback on the epoch record er, st being the locals.
visitER(g, er, st) ==
    LET es == er.EpochState
        bs == er.BlockState
    IN  IF Mismatch(g, es)
           THEN [st EXCEPT !.panic = "network ID/name mismatch"]
           ELSE [panic |-> "none",
                 hh |-> IF st.lastES = NilES \/ es.Rules.Upgrades # st.lastES.Rules.Upgrades
                           THEN Append(st.hh, [Upgrades |-> es.Rules.Upgrades,
                                               Height |-> bs.LastBlock.Idx + 1])
                           ELSE st.hh,
                 lastES |-> es,
                 firstES |-> IF st.firstES = NilES THEN es ELSE st.firstES,
                 firstBS |-> IF st.firstBS = NilBS THEN bs ELSE st.firstBS]

\* g.Epochs.ForEach from record i on; a panic ends it.
RECURSIVE forEachER(_, _, _)
forEachER(g, i, st) ==
    IF i > Len(g.Epochs) \/ st.panic # "none" THEN st
    ELSE forEachER(g, i + 1, visitER(g, g.Epochs[i], st))

\* LoadGenesis on the dataset g: the panic it ends with ("none" when it
\* returns) and the backend's fields afterwards.
LoadGenesisOn(g) ==
    LET st == forEachER(g, 1, NoneVisited)
        unset(why) == [panic |-> why, Progress |-> ZeroProgress, NodeInfo |-> NilNodeInfo,
                       Opera |-> NilRules, Chain |-> NilChain]
    IN  IF st.panic # "none" THEN unset(st.panic)
        ELSE IF st.firstES = NilES \/ st.firstBS = NilBS THEN unset("no ERs in genesis")
        ELSE [panic |-> "none",
              Progress |-> [Epoch |-> st.firstES.Epoch,
                            LastBlockIdx |-> st.firstBS.LastBlock.Idx,
                            LastBlockAtropos |-> st.firstBS.LastBlock.Atropos],
              NodeInfo |-> [Network |-> g.NetworkID, Genesis |-> g.GenesisID,
                            Epoch |-> st.firstES.Epoch,
                            NumOfBlocks |-> st.firstBS.LastBlock.Idx],
              Opera |-> st.firstES.Rules,
              Chain |-> st.hh]

\* NewCrawler up to its call of LoadGenesis: the queue of capacity workers,
\* the two open signals, the backend with an empty peer set.
Constructed ==
    /\ callerPc = "new"
    /\ stopCalls = 0
    /\ stopReturns = 0
    /\ serverRunning = FALSE
    /\ panic = "none"
    /\ quitSync = "open"
    /\ done = "open"
    /\ wg = 0
    /\ peers = {}
    /\ workers \in 0..MaxWorkers
    /\ nodes = <<>>
    /\ aggPc = "none"
    /\ updated = 0
    /\ catalogue = {}
    /\ resultCalls = 0
    /\ finalCalls = 0
    /\ consumed = [s \in Sessions |-> 0]
    /\ pc = [s \in Sessions |-> "idle"]
    /\ id = [s \in Sessions |-> NoNode]
    /\ Status = [s \in Sessions |-> PeerUnknown]
    /\ progress = [s \in Sessions |-> ZeroProgress]
    /\ ret = [s \in Sessions |-> "none"]
    /\ emitted = [s \in Sessions |-> 0]
    /\ firstTerminal = 0

\* NewCrawler has returned: LoadGenesis has loaded the dataset.
Init ==
    /\ Constructed
    /\ genesis = SampleGenesis
    /\ loadPc = "done"
    /\ Progress = LoadGenesisOn(genesis).Progress
    /\ NodeInfo = LoadGenesisOn(genesis).NodeInfo
    /\ Opera = LoadGenesisOn(genesis).Opera
    /\ Chain = LoadGenesisOn(genesis).Chain

\* NewCrawler at its call of LoadGenesis, for any dataset.
InitGenesis ==
    /\ Constructed
    /\ genesis \in GenesisSets
    /\ loadPc = "start"
    /\ Progress = ZeroProgress
    /\ NodeInfo = NilNodeInfo
    /\ Opera = NilRules
    /\ Chain = NilChain

\* An unrecovered panic ends the process: no goroutine takes a step after it.
Alive == panic = "none"

\* NewCrawler's call of LoadGenesis: it panics, or it sets the backend's
\* Progress, NodeInfo, Opera and Chain.
LoadGenesis ==
    LET out == LoadGenesisOn(genesis)
    IN  /\ Alive
        /\ loadPc = "start"
        /\ loadPc' = IF out.panic = "none" THEN "done" ELSE "panicked"
        /\ panic' = out.panic
        /\ Progress' = out.Progress
        /\ NodeInfo' = out.NodeInfo
        /\ Opera' = out.Opera
        /\ Chain' = out.Chain
        /\ UNCHANGED <<callerPc, stopCalls, stopReturns, serverRunning, done, backendVars,
                       workers, genesis, nodes, aggVars, peerVars>>

\* ------------------------------------------------------------- Crawler
\* Start: the server starts and the aggregation goroutine is launched with
\* updated = 0 and the catalogue copied from the input (here the empty set).
Start ==
    /\ Alive
    /\ callerPc = "new"
    /\ callerPc' = "idle"
    /\ serverRunning' = TRUE
    /\ aggPc' = "loop"
    /\ updated' = 0
    /\ catalogue' = {}
    /\ UNCHANGED <<stopCalls, stopReturns, panic, done, backendVars, queueVars,
                   resultCalls, finalCalls, consumed, peerVars>>

\* Stop, first statement: c.server.Stop().  The transport accepts no new
\* connection afterwards; the sessions it has already started keep running
\* until their reads fail.
StopServer ==
    /\ Alive
    /\ callerPc = "idle"
    /\ stopCalls < MaxStops
    /\ stopCalls' = stopCalls + 1
    /\ serverRunning' = FALSE
    /\ callerPc' = "close"
    /\ UNCHANGED <<stopReturns, panic, done, backendVars, queueVars, aggVars, peerVars>>

\* Close, first statement: close(b.quitSync).  Closing a closed channel
\* panics, and an unrecovered panic ends the process.
CloseQuit ==
    /\ Alive
    /\ callerPc = "close"
    /\ IF quitSync = "closed"
          THEN /\ panic' = "close of closed channel"
               /\ callerPc' = "dead"
               /\ UNCHANGED quitSync
          ELSE /\ quitSync' = "closed"
               /\ callerPc' = "wait"
               /\ UNCHANGED panic
    /\ UNCHANGED <<stopCalls, stopReturns, serverRunning, done, wg, peers,
                   queueVars, aggVars, peerVars>>

\* Close, second statement: b.wg.Wait() returns when the counter is zero.
CloseWait ==
    /\ Alive
    /\ callerPc = "wait"
    /\ wg = 0
    /\ callerPc' = "closed"
    /\ UNCHANGED <<stopCalls, stopReturns, serverRunning, panic, done, backendVars,
                   queueVars, aggVars, peerVars>>

\* Stop, last statement: close(c.done), and Stop returns.
StopDone ==
    /\ Alive
    /\ callerPc = "closed"
    /\ IF done = "closed"
          THEN /\ panic' = "close of closed channel"
               /\ callerPc' = "dead"
               /\ UNCHANGED <<done, stopReturns>>
          ELSE /\ done' = "closed"
               /\ callerPc' = "idle"
               /\ stopReturns' = stopReturns + 1
               /\ UNCHANGED panic
    /\ UNCHANGED <<stopCalls, serverRunning, backendVars, queueVars, aggVars, peerVars>>

\* -------------------------------------------------------- peer registry
\* b.peers is a peerSet, keyed by p.id.  Its code is not in the two source
\* files: RegisterPeer and UnregisterPeer follow the registry's contract
\* (register fails on a duplicate identifier and leaves the set as it is,
\* unregister removes the session of that identifier).
PeerOf(idv) == {t \in peers : id[t] = idv}

RegisterPeer(s) ==
    IF PeerOf(id[s]) # {}
       THEN [err |-> "errAlreadyRegistered", peers |-> peers]
       ELSE [err |-> "nil", peers |-> peers \cup {s}]

UnregisterPeer(idv) == peers \ PeerOf(idv)

\* unregisterPeer: nothing to do when no peer has the identifier, else the
\* peer set removes it.
unregisterPeer(idv) == IF PeerOf(idv) = {} THEN peers ELSE UnregisterPeer(idv)

\* ------------------------------------------------------------ handleMsg
\* The errors handleMsg returns.  checkLenLimits reuses ErrMsgTooLarge for
\* an oversized list; the model keeps the two apart by their text.
Errors ==
    {"ErrRead", "ErrMsgTooLarge", "ErrExtraStatusMsg", "ErrDecode", "ErrEmptyMessage",
     "ErrMsgTooLarge(items)", "ErrInvalidMsgCode", "errEitherEventsOrHashes"}

\* checkLenLimits with >= for > in the comparison with hardLimitItems.
checkLenLimits_AtLimit(size) ==
    IF size <= 0 THEN "ErrEmptyMessage"
    ELSE IF size >= hardLimitItems THEN "ErrMsgTooLarge(items)"
    ELSE "nil"

checkLenLimits(size) ==
    IF size <= 0 THEN "ErrEmptyMessage"
    ELSE IF size > hardLimitItems THEN "ErrMsgTooLarge(items)"
    ELSE "nil"

\* ClassifyProgress with >= for >.
ClassifyProgress_AtLeast(pr) ==
    IF pr.Epoch >= EpochOf(pr.LastBlockAtropos) THEN PeerEvil ELSE PeerUseless

\* The classification of a decoded progress message.
ClassifyProgress(pr) ==
    IF pr.Epoch > EpochOf(pr.LastBlockAtropos) THEN PeerEvil ELSE PeerUseless

\* handleChunk without the check that rejects a chunk carrying both lists.
handleChunk_BothAccepted(p, chunk) ==
    IF chunk.Events < 1 /\ chunk.IDs < 1
       THEN [Status |-> p.Status, progress |-> p.progress, err |-> "errEitherEventsOrHashes"]
    ELSE IF chunk.Events > 0
       THEN [Status |-> PeerUseless, progress |-> p.progress, err |-> "nil"]
    ELSE [Status |-> p.Status, progress |-> p.progress, err |-> "nil"]

\* The case EventsStreamResponse past the decoding: a dagChunk with neither
\* or both of its lists is an error, one with events makes the peer
\* useless, one with identifiers is logged.
handleChunk(p, chunk) ==
    IF chunk.Events < 1 /\ chunk.IDs < 1
       THEN [Status |-> p.Status, progress |-> p.progress, err |-> "errEitherEventsOrHashes"]
    ELSE IF chunk.Events > 0 /\ chunk.IDs > 0
       THEN [Status |-> p.Status, progress |-> p.progress, err |-> "errEitherEventsOrHashes"]
    ELSE IF chunk.Events > 0
       THEN [Status |-> PeerUseless, progress |-> p.progress, err |-> "nil"]
    ELSE [Status |-> p.Status, progress |-> p.progress, err |-> "nil"]

\* The switch of handleMsg on the message code, for a peer
\* p = [Status, progress]: the peer's fields afterwards and the error.
handleCode(p, msg) ==
    LET fail(e) == [Status |-> p.Status, progress |-> p.progress, err |-> e]
        same == fail("nil")
        pl == msg.Payload
    IN  CASE msg.Code = "HandshakeMsg" -> fail("ErrExtraStatusMsg")
          [] msg.Code = "ProgressMsg" ->
                IF ~pl.Decodes THEN fail("ErrDecode")
                ELSE [Status |-> ClassifyProgress(pl.Progress),
                      progress |-> pl.Progress, err |-> "nil"]
          [] msg.Code \in ListCodes ->
                IF ~pl.Decodes THEN fail("ErrDecode")
                ELSE fail(checkLenLimits(pl.Items))
          [] msg.Code = "EventsStreamResponse" ->
                IF ~pl.Decodes THEN fail("ErrDecode") ELSE handleChunk(p, pl)
          [] msg.Code \in PlainCodes -> same
          [] OTHER -> fail("ErrInvalidMsgCode")

\* handleMsg with the size check left out.
handleMsg_NoSizeCheck(p, r) ==
    IF ~r.ok THEN [Status |-> p.Status, progress |-> p.progress, err |-> "ErrRead"]
    ELSE handleCode(p, r.msg)

\* handleMsg on the result r of ReadMsg: a read error is returned, then the
\* size of the message is checked, then its code decides.
handleMsg(p, r) ==
    IF ~r.ok THEN [Status |-> p.Status, progress |-> p.progress, err |-> "ErrRead"]
    ELSE IF r.msg.Size > protocolMaxMsgSize
         THEN [Status |-> p.Status, progress |-> p.progress, err |-> "ErrMsgTooLarge"]
    ELSE handleCode(p, r.msg)

\* --------------------------------------------------------------- sessions
\* The transport makes its next Run invocation: newPeer wraps the
\* connection of node n; the peer starts with status unknown and no
\* progress.
Connect(s, n) ==
    /\ Alive
    /\ serverRunning
    /\ pc[s] = "idle"
    /\ \A t \in Sessions : t < s => pc[t] # "idle"
    /\ pc' = [pc EXCEPT ![s] = "select"]
    /\ id' = [id EXCEPT ![s] = n]
    /\ Status' = [Status EXCEPT ![s] = PeerUnknown]
    /\ progress' = [progress EXCEPT ![s] = ZeroProgress]
    /\ UNCHANGED <<crawlerVars, backendVars, queueVars, aggVars, ret, emitted, firstTerminal>>

\* Run returns e: the deferred peer.Close runs.  Nothing reads the peer
\* afterwards: its identifier leaves the state, its last status and progress
\* stay.
RunReturn(s, e) ==
    /\ pc' = [pc EXCEPT ![s] = "done"]
    /\ ret' = [ret EXCEPT ![s] = e]
    /\ id' = [id EXCEPT ![s] = NoNode]

\* HandleReturn without the deferred b.wg.Done.
HandleReturn_NoDone(s, e) ==
    /\ UNCHANGED wg
    /\ RunReturn(s, e)

\* handle returns e to Run, past the select's default branch: the deferred
\* b.wg.Done, then as RunReturn.
HandleReturn(s, e) ==
    /\ wg' = wg - 1
    /\ RunReturn(s, e)

\* RunSelect without the case <-backend.quitSync.
RunSelect_NoQuitCase(s) ==
    /\ Alive
    /\ pc[s] = "select"
    /\ pc' = [pc EXCEPT ![s] = "add"]
    /\ UNCHANGED <<ret, id>>
    /\ UNCHANGED <<crawlerVars, backendVars, queueVars, aggVars, Status, progress, emitted, firstTerminal>>

\* Run: the select on b.quitSync.  Closed: return p2p.DiscQuitting.  Open:
\* the default branch is taken.
RunSelect(s) ==
    /\ Alive
    /\ pc[s] = "select"
    /\ IF quitSync = "closed"
          THEN RunReturn(s, "DiscQuitting")
          ELSE /\ pc' = [pc EXCEPT ![s] = "add"]
               /\ UNCHANGED <<ret, id>>
    /\ UNCHANGED <<crawlerVars, backendVars, queueVars, aggVars, Status, progress, emitted, firstTerminal>>

\* Run, default branch: b.wg.Add(1).  (An Add that races with Close's Wait
\* is taken with its ordinary outcome, the increment.)
RunAdd(s) ==
    /\ Alive
    /\ pc[s] = "add"
    /\ wg' = wg + 1
    /\ pc' = [pc EXCEPT ![s] = "handle"]
    /\ UNCHANGED <<crawlerVars, quitSync, peers, queueVars, aggVars, id, Status, progress,
                   ret, emitted, firstTerminal>>

\* handleStart with unregisterPeer deferred before the registration: a
\* rejected registration then unregisters the identifier on its way out.
handleStart_DeferFirst(s, banned, opera, trusted, hsOk) ==
    LET useless == banned \/ ~opera
        reg == RegisterPeer(s)
        err == IF ~trusted /\ useless THEN "DiscUselessPeer"
               ELSE IF ~hsOk THEN "errHandshake"
               ELSE reg.err
    IN  /\ Alive
        /\ pc[s] = "handle"
        /\ IF err # "nil"
              THEN /\ HandleReturn(s, err)
                   /\ peers' = IF err = "errAlreadyRegistered"
                                  THEN unregisterPeer(id[s]) ELSE peers
              ELSE /\ pc' = [pc EXCEPT ![s] = "loop"]
                   /\ peers' = reg.peers
                   /\ UNCHANGED <<wg, ret, id>>
        /\ UNCHANGED <<crawlerVars, quitSync, queueVars, aggVars, Status, progress, emitted, firstTerminal>>

\* handleStart with a peer useless only when it is banned and also lacks
\* the application identifier.
handleStart_AllThree(s, banned, opera, trusted, hsOk) ==
    LET useless == banned /\ ~opera
        reg == RegisterPeer(s)
        err == IF ~trusted /\ useless THEN "DiscUselessPeer"
               ELSE IF ~hsOk THEN "errHandshake"
               ELSE reg.err
    IN  /\ Alive
        /\ pc[s] = "handle"
        /\ IF err # "nil"
              THEN /\ HandleReturn(s, err)
                   /\ UNCHANGED peers
              ELSE /\ pc' = [pc EXCEPT ![s] = "loop"]
                   /\ peers' = reg.peers
                   /\ UNCHANGED <<wg, ret, id>>
        /\ UNCHANGED <<crawlerVars, quitSync, queueVars, aggVars, Status, progress, emitted, firstTerminal>>

\* handle up to the message loop: the pre-filter, the handshake and the
\* registration.  banned, opera, trusted are what the transport reports of
\* the peer, hsOk whether p.Handshake succeeds.  On each early return only
\* the deferred p.Disconnect runs: unregisterPeer is deferred after the
\* registration has succeeded.
handleStart(s, banned, opera, trusted, hsOk) ==
    LET useless == banned \/ ~opera
        reg == RegisterPeer(s)
        err == IF ~trusted /\ useless THEN "DiscUselessPeer"
               ELSE IF ~hsOk THEN "errHandshake"
               ELSE reg.err
    IN  /\ Alive
        /\ pc[s] = "handle"
        /\ IF err # "nil"
              THEN /\ HandleReturn(s, err)
                   /\ UNCHANGED peers
              ELSE /\ pc' = [pc EXCEPT ![s] = "loop"]
                   /\ peers' = reg.peers
                   /\ UNCHANGED <<wg, ret, id>>
        /\ UNCHANGED <<crawlerVars, quitSync, queueVars, aggVars, Status, progress, emitted, firstTerminal>>

\* handleLoop with a switch that has the case PeerUseless alone.
handleLoop_EvilNotSent(s, r) ==
    LET res == handleMsg([Status |-> Status[s], progress |-> progress[s]], r)
    IN  /\ Alive
        /\ pc[s] = "loop"
        /\ Status' = [Status EXCEPT ![s] = res.Status]
        /\ progress' = [progress EXCEPT ![s] = res.progress]
        /\ firstTerminal' = IF firstTerminal = 0 /\ res.Status \in Terminal
                               THEN s ELSE firstTerminal
        /\ IF res.err # "nil"
              THEN /\ HandleReturn(s, res.err)
                   /\ peers' = unregisterPeer(id[s])
              ELSE /\ pc' = [pc EXCEPT ![s] = IF res.Status = PeerUseless THEN "send" ELSE "loop"]
                   /\ UNCHANGED <<wg, ret, id, peers>>
        /\ UNCHANGED <<crawlerVars, quitSync, queueVars, aggVars, emitted>>

\* handleLoop with a switch that has the case PeerEvil alone: a useless
\* peer is read from again.
handleLoop_KeepsReading(s, r) ==
    LET res == handleMsg([Status |-> Status[s], progress |-> progress[s]], r)
    IN  /\ Alive
        /\ pc[s] = "loop"
        /\ Status' = [Status EXCEPT ![s] = res.Status]
        /\ progress' = [progress EXCEPT ![s] = res.progress]
        /\ firstTerminal' = IF firstTerminal = 0 /\ res.Status \in Terminal
                               THEN s ELSE firstTerminal
        /\ IF res.err # "nil"
              THEN /\ HandleReturn(s, res.err)
                   /\ peers' = unregisterPeer(id[s])
              ELSE /\ pc' = [pc EXCEPT ![s] = IF res.Status = PeerEvil THEN "send" ELSE "loop"]
                   /\ UNCHANGED <<wg, ret, id, peers>>
        /\ UNCHANGED <<crawlerVars, quitSync, queueVars, aggVars, emitted>>

\* handleLoop with the send made whatever p.Status is.
handleLoop_SendsAlways(s, r) ==
    LET res == handleMsg([Status |-> Status[s], progress |-> progress[s]], r)
    IN  /\ Alive
        /\ pc[s] = "loop"
        /\ Status' = [Status EXCEPT ![s] = res.Status]
        /\ progress' = [progress EXCEPT ![s] = res.progress]
        /\ firstTerminal' = IF firstTerminal = 0 /\ res.Status \in Terminal
                               THEN s ELSE firstTerminal
        /\ IF res.err # "nil"
              THEN /\ HandleReturn(s, res.err)
                   /\ peers' = unregisterPeer(id[s])
              ELSE /\ pc' = [pc EXCEPT ![s] = "send"]
                   /\ UNCHANGED <<wg, ret, id, peers>>
        /\ UNCHANGED <<crawlerVars, quitSync, queueVars, aggVars, emitted>>

\* handleLoop without the deferred unregisterPeer on an error return.
handleLoop_NoUnregister(s, r) ==
    LET res == handleMsg([Status |-> Status[s], progress |-> progress[s]], r)
    IN  /\ Alive
        /\ pc[s] = "loop"
        /\ Status' = [Status EXCEPT ![s] = res.Status]
        /\ progress' = [progress EXCEPT ![s] = res.progress]
        /\ firstTerminal' = IF firstTerminal = 0 /\ res.Status \in Terminal
                               THEN s ELSE firstTerminal
        /\ IF res.err # "nil"
              THEN /\ HandleReturn(s, res.err)
                   /\ UNCHANGED peers
              ELSE /\ pc' = [pc EXCEPT ![s] = IF res.Status \in Terminal THEN "send" ELSE "loop"]
                   /\ UNCHANGED <<wg, ret, id, peers>>
        /\ UNCHANGED <<crawlerVars, quitSync, queueVars, aggVars, emitted>>

\* One turn of handle's loop: handleMsg on the next read, then the switch on
\* p.Status.  An error returns it (the deferred unregisterPeer and
\* Disconnect run); a terminal status goes on to the send; otherwise the
\* loop reads again.
handleLoop(s, r) ==
    LET res == handleMsg([Status |-> Status[s], progress |-> progress[s]], r)
    IN  /\ Alive
        /\ pc[s] = "loop"
        /\ Status' = [Status EXCEPT ![s] = res.Status]
        /\ progress' = [progress EXCEPT ![s] = res.progress]
        /\ firstTerminal' = IF firstTerminal = 0 /\ res.Status \in Terminal
                               THEN s ELSE firstTerminal
        /\ IF res.err # "nil"
              THEN /\ HandleReturn(s, res.err)
                   /\ peers' = unregisterPeer(id[s])
              ELSE /\ pc' = [pc EXCEPT ![s] = IF res.Status \in Terminal THEN "send" ELSE "loop"]
                   /\ UNCHANGED <<wg, ret, id, peers>>
        /\ UNCHANGED <<crawlerVars, quitSync, queueVars, aggVars, emitted>>

\* handleSent without the deferred unregisterPeer.
handleSent_NoUnregister(s) ==
    /\ emitted' = [emitted EXCEPT ![s] = @ + 1]
    /\ UNCHANGED peers
    /\ HandleReturn(s, "nil")

\* The send of handle has completed: return nil, the deferred
\* unregisterPeer and Disconnect run.
handleSent(s) ==
    /\ emitted' = [emitted EXCEPT ![s] = @ + 1]
    /\ peers' = unregisterPeer(id[s])
    /\ HandleReturn(s, "nil")

\* ------------------------------------------------------ aggregation loop
\* c.updateNode is not in the two source files: it merges the record into
\* the catalogue under the node's identifier.
updateNode(output, n) == output \cup {n.N}

\* The case n := <-c.nodes of the loop: merge, then onUpdatedSet when
\* updated%10 == 0.  Nothing in the loop assigns updated.
receiveNode(n) ==
    /\ catalogue' = updateNode(catalogue, n)
    /\ consumed' = [consumed EXCEPT ![n.sess] = @ + 1]
    /\ resultCalls' = IF updated % UpdateEvery = 0 THEN resultCalls + 1 ELSE resultCalls
    /\ UNCHANGED <<aggPc, updated, finalCalls>>

\* b.output <- record on a queue with room: the send completes.
Send(s) ==
    /\ Alive
    /\ pc[s] = "send"
    /\ Len(nodes) < workers
    /\ nodes' = Append(nodes, Record(s))
    /\ handleSent(s)
    /\ UNCHANGED <<crawlerVars, quitSync, built, aggVars, Status, progress, firstTerminal>>

\* b.output <- record on a queue of capacity 0: the send completes when the
\* loop receives it.
Handoff(s) ==
    /\ Alive
    /\ pc[s] = "send"
    /\ workers = 0
    /\ aggPc = "loop"
    /\ receiveNode(Record(s))
    /\ handleSent(s)
    /\ UNCHANGED <<crawlerVars, quitSync, queueVars, Status, progress, firstTerminal>>

\* The loop takes a queued record.
AggRecv ==
    /\ Alive
    /\ aggPc = "loop"
    /\ nodes # <<>>
    /\ nodes' = Tail(nodes)
    /\ receiveNode(Head(nodes))
    /\ UNCHANGED <<crawlerVars, backendVars, built, peerVars>>

\* The case <-c.done of the loop: onUpdatedSet, and the goroutine returns.
\* The select takes it whenever c.done is closed, whatever c.nodes holds.
AggDone ==
    /\ Alive
    /\ aggPc = "loop"
    /\ done = "closed"
    /\ finalCalls' = finalCalls + 1
    /\ aggPc' = "exited"
    /\ UNCHANGED <<crawlerVars, backendVars, queueVars, updated, catalogue, resultCalls,
                   consumed, peerVars>>

\* ------------------------------------------------------------------ types
\* What Run returns ("none" while it has not returned).
Returns ==
    Errors \cup {"none", "nil", "DiscQuitting", "DiscUselessPeer", "errHandshake",
                 "errAlreadyRegistered"}

TypeOK ==
    /\ callerPc \in {"new", "idle", "close", "wait", "closed", "dead"}
    /\ stopCalls \in 0..MaxStops
    /\ stopReturns \in 0..MaxStops
    /\ serverRunning \in BOOLEAN
    /\ panic \in {"none", "close of closed channel", "network ID/name mismatch",
                 "no ERs in genesis"}
    /\ quitSync \in {"open", "closed"}
    /\ done \in {"open", "closed"}
    /\ wg \in 0..Cardinality(Sessions)
    /\ peers \subseteq Sessions
    /\ workers \in 0..MaxWorkers
    /\ genesis \in GenesisSets
    /\ loadPc \in {"start", "done", "panicked"}
    /\ Progress \in [Epoch : GenesisEpochs, LastBlockIdx : BlockIdxs,
                      LastBlockAtropos : AtroposHashes] \cup {ZeroProgress}
    /\ NodeInfo \in [Network : NetworkIDs, Genesis : {7}, Epoch : GenesisEpochs,
                      NumOfBlocks : BlockIdxs] \cup {NilNodeInfo}
    /\ Opera \in Rules \cup {NilRules}
    /\ Len(Chain) <= Len(genesis.Epochs)
    /\ Len(nodes) <= workers
    /\ aggPc \in {"none", "loop", "exited"}
    /\ updated = 0
    /\ catalogue \subseteq Nodes
    /\ resultCalls \in 0..Cardinality(Sessions)
    /\ finalCalls \in 0..1
    /\ consumed \in [Sessions -> 0..1]
    /\ pc \in [Sessions -> {"idle", "select", "add", "handle", "loop", "send", "done"}]
    /\ id \in [Sessions -> Nodes \cup {NoNode}]
    /\ Status \in [Sessions -> Statuses]
    /\ progress \in [Sessions -> PeerProgress \cup {ZeroProgress}]
    /\ ret \in [Sessions -> Returns]
    /\ emitted \in [Sessions -> 0..1]
    /\ firstTerminal \in Sessions \cup {0}

\* ------------------------------------------------------------------ Next
Next ==
    \/ Start
    \/ StopServer
    \/ CloseQuit
    \/ CloseWait
    \/ StopDone
    \/ AggRecv
    \/ AggDone
    \/ \E s \in Sessions, n \in Nodes : Connect(s, n)
    \/ \E s \in Sessions : RunSelect(s)
    \/ \E s \in Sessions : RunAdd(s)
    \/ \E s \in Sessions : \E banned, opera, trusted, hsOk \in BOOLEAN :
            handleStart(s, banned, opera, trusted, hsOk)
    \/ \E s \in Sessions : \E r \in ReadResults : handleLoop(s, r)
    \/ \E s \in Sessions : Send(s)
    \/ \E s \in Sessions : Handoff(s)

Spec == Init /\ [][Next]_vars

\* ReadMsg returns an error: the connection has been torn down.
ReadError == [ok |-> FALSE, msg |-> NoMsg]

\* Scheduling.  Every goroutine that can take its next step takes it: the
\* caller inside Stop (Close, then close(c.done)), the aggregation loop on
\* each ready case of its select, a Run invocation up to its first read and
\* at its send.  Whether Stop is called, whether a peer connects and what a
\* peer sends are up to the environment, with one exception: once the
\* server is stopped the transport tears the connections down, so a handler
\* at its read gets an error.
Fairness ==
    /\ WF_vars(CloseQuit) /\ WF_vars(CloseWait) /\ WF_vars(StopDone)
    /\ WF_vars(AggRecv) /\ WF_vars(AggDone)
    /\ \A s \in Sessions :
          /\ WF_vars(RunSelect(s))
          /\ WF_vars(RunAdd(s))
          /\ WF_vars(\E banned, opera, trusted, hsOk \in BOOLEAN :
                        handleStart(s, banned, opera, trusted, hsOk))
          /\ WF_vars(Send(s))
          /\ WF_vars(Handoff(s))
          /\ WF_vars(~serverRunning /\ handleLoop(s, ReadError))

FairSpec == Spec /\ Fairness

\* NewCrawler's loading of the genesis dataset, for any dataset.
NextGenesis == LoadGenesis

SpecGenesis == InitGenesis /\ [][NextGenesis]_vars

\* ================================================================ claims
\* Close() has returned at least once.
CloseReturned == callerPc = "closed" \/ stopReturns > 0
\* Stop() has returned at least once.
StopReturned == stopReturns > 0
\* The handler of session s is running: Run has counted it in b.wg and
\* handle has not returned.
InHandle(s) == pc[s] \in {"handle", "loop", "send"}
\* The results the aggregation loop has merged.
Merged == Cardinality({s \in Sessions : consumed[s] > 0})

\* C1: Close() is a join barrier: once Close() has returned, no session
\* handler is running and none starts; every Run invocation that has
\* returned either returned DiscQuitting without calling handle or has
\* finished handle.
C1_CloseIsJoinBarrier ==
    CloseReturned => \A s \in Sessions : ~InHandle(s)

\* C2: a session's handler puts at most one record on the output queue; a
\* record is put only by a session whose status is Useless or Evil; and a
\* handler that has exited has put exactly one record if its session
\* reached Useless or Evil and none if it exited before (pre-filter,
\* handshake, registration, read or message-handling error).
C2_OneRecordIffTerminal ==
    \A s \in Sessions :
        /\ emitted[s] <= 1
        /\ emitted[s] = 1 => Status[s] \in Terminal
        /\ pc[s] = "done" => (emitted[s] = 1 <=> Status[s] \in Terminal)
        /\ pc[s] = "done" /\ ret[s] # "nil" => emitted[s] = 0 /\ Status[s] \notin Terminal

\* C2 witness: one session has exited after reaching Evil with its record
\* emitted, another has exited on a failed registration with none.
C2_Witness ==
    \E s, t \in Sessions :
        /\ pc[s] = "done" /\ Status[s] = PeerEvil /\ emitted[s] = 1
        /\ pc[t] = "done" /\ ret[t] = "errAlreadyRegistered" /\ emitted[t] = 0

\* C3: the aggregation loop invokes onUpdated once per 10th merged result
\* and on no other result (whether the first call comes with result 1 or
\* with result 10).
C3_CallbackEveryTenth ==
    \/ resultCalls = Merged \div UpdateEvery
    \/ resultCalls = (Merged + UpdateEvery - 1) \div UpdateEvery

\* C4: whenever Stop() has returned, the final onUpdated invocation, the one
\* triggered by the stop signal, has been made.
C4_FinalCallbackBeforeStopReturns ==
    StopReturned => finalCalls >= 1

\* C5: calling Stop() (and with it Close()) twice never panics, and the
\* final callback is invoked at most once.
C5_StopIdempotent ==
    /\ panic = "none"
    /\ finalCalls <= 1

\* C6: every record placed on the output queue is consumed exactly once: no
\* record is merged twice, and when the aggregation loop has exited on the
\* stop signal no record is left in the queue.
C6_ConsumedExactlyOnce ==
    [][/\ \A s \in Sessions : consumed'[s] <= emitted'[s]
       /\ aggPc = "loop" /\ aggPc' = "exited" => nodes' = <<>>]_vars

\* No two registered sessions have the same identifier.
UniquePeers == \A s, t \in peers : id[s] = id[t] => s = t
\* The step is session s returning from handle on a rejected registration.
Rejected(s) == pc[s] = "handle" /\ pc'[s] = "done" /\ ret'[s] = "errAlreadyRegistered"

\* C7: the registry holds at most one session per identifier; when a
\* handler's registration is rejected because the identifier is registered,
\* the registry is unchanged, the registered session is still the one of
\* that identifier, and the rejected handler's exit does not remove it.
C7_DuplicateRejected ==
    [][/\ UniquePeers'
       /\ \A s \in Sessions :
            Rejected(s) =>
                /\ peers' = peers
                /\ s \notin peers'
                /\ \E t \in peers' : id'[t] = id[s]]_vars

\* C7 witness: a registration has been rejected and the session that holds
\* the identifier is still registered.
C7_Witness ==
    \E s, t \in Sessions :
        /\ pc[t] = "done" /\ ret[t] = "errAlreadyRegistered"
        /\ s \in peers /\ pc[s] = "loop"

\* C8: a session's status changes only from Unknown to Useless or Evil;
\* once it is Useless or Evil it never changes and the handler is never
\* again at the read of its loop.
C8_TerminalAssignedOnce ==
    [][\A s \in Sessions :
          /\ Status'[s] # Status[s] => Status[s] = PeerUnknown /\ Status'[s] \in Terminal
          /\ Status[s] \in Terminal => pc[s] # "loop" /\ pc'[s] # "loop"]_vars

\* C8 witness: one session has ended Evil and another Useless.
C8_Witness ==
    \E s, t \in Sessions :
        /\ pc[s] = "done" /\ Status[s] = PeerEvil
        /\ pc[t] = "done" /\ Status[t] = PeerUseless

\* The reads that bring a progress message of admissible size that decodes.
ProgressReads ==
    {r \in ReadResults : /\ r.ok
                         /\ r.msg.Code = "ProgressMsg"
                         /\ r.msg.Size <= protocolMaxMsgSize
                         /\ r.msg.Payload.Decodes}
\* The reads that bring a message larger than the maximum, of any code.
OversizedReads == {r \in ReadResults : r.ok /\ r.msg.Size > protocolMaxMsgSize}

\* C9: handling a decoded progress message sets the session's progress to
\* the reported triple and its status to Evil if the reported epoch is
\* greater than the epoch of the reported last-block hash, to Useless
\* otherwise; the handler then sends, and its send puts exactly one record,
\* the session's, after which the handler has returned nil.
C9_ProgressClassifies ==
    [][\A s \in Sessions :
          /\ pc[s] = "loop" => \A r \in ProgressReads :
                handleLoop(s, r) =>
                    LET pr == r.msg.Payload.Progress
                    IN  /\ progress'[s] = pr
                        /\ Status'[s] = IF pr.Epoch > pr.LastBlockAtropos \div HashTail
                                           THEN PeerEvil ELSE PeerUseless
                        /\ pc'[s] = "send"
                        /\ emitted'[s] = 0
          /\ pc[s] = "send" /\ pc'[s] # "send" =>
                /\ emitted'[s] = 1
                /\ pc'[s] = "done" /\ ret'[s] = "nil"
                /\ \/ nodes' = Append(nodes, Record(s))
                   \/ nodes' = nodes /\ consumed'[s] = consumed[s] + 1]_vars

\* C9 witness: a session whose progress message reported an epoch beyond
\* its last block's has ended Evil, one whose reported epoch was not beyond
\* it has ended Useless, each with its record emitted.
C9_Witness ==
    \E s, t \in Sessions :
        /\ Status[s] = PeerEvil /\ emitted[s] = 1
        /\ progress[s].Epoch > EpochOf(progress[s].LastBlockAtropos)
        /\ Status[t] = PeerUseless /\ emitted[t] = 1
        /\ progress[t] \in PeerProgress
        /\ progress[t].Epoch <= EpochOf(progress[t].LastBlockAtropos)

\* C10: handling a message larger than the maximum, whatever its code,
\* returns ErrMsgTooLarge, leaves the session's status and progress as they
\* were and emits no record.
C10_OversizedRejected ==
    [][\A s \in Sessions : pc[s] = "loop" => \A r \in OversizedReads :
          handleLoop(s, r) =>
              /\ pc'[s] = "done" /\ ret'[s] = "ErrMsgTooLarge"
              /\ Status'[s] = Status[s]
              /\ progress'[s] = progress[s]
              /\ emitted' = emitted
              /\ nodes' = nodes
              /\ consumed' = consumed]_vars

\* C10 witness: a session has been ended by the size check.
C10_Witness == \E s \in Sessions : pc[s] = "done" /\ ret[s] = "ErrMsgTooLarge"

\* The reads of a status (handshake) message of admissible size.
HandshakeReads == {r \in ReadResults : r.ok /\ r.msg.Code = "HandshakeMsg"
                                        /\ r.msg.Size <= protocolMaxMsgSize}

\* C11: a registered session that reads a status message in its message
\* loop, whatever its status then, exits with ErrExtraStatusMsg, its status
\* and progress as they were, out of the registry, no record put on the
\* queue or merged.
C11_ExtraStatusRejected ==
    [][\A s \in Sessions : pc[s] = "loop" => \A r \in HandshakeReads :
          handleLoop(s, r) =>
              /\ s \in peers
              /\ pc'[s] = "done" /\ ret'[s] = "ErrExtraStatusMsg"
              /\ Status'[s] = Status[s]
              /\ progress'[s] = progress[s]
              /\ s \notin peers'
              /\ emitted' = emitted
              /\ nodes' = nodes
              /\ consumed' = consumed]_vars

C11_Witness ==
    \E s \in Sessions :
        /\ pc[s] = "done" /\ ret[s] = "ErrExtraStatusMsg"
        /\ s \notin peers /\ emitted[s] = 0

\* The reads of a decodable events stream response of admissible size
\* carrying ids identifiers and events full events.
ChunkReads(ids, events) ==
    {r \in ReadResults : /\ r.ok /\ r.msg.Code = "EventsStreamResponse"
                         /\ r.msg.Size <= protocolMaxMsgSize
                         /\ r.msg.Payload.Decodes
                         /\ r.msg.Payload.IDs = ids /\ r.msg.Payload.Events = events}

\* A step of the system that only handles the read r in session s and
\* changes nothing: the handler is back at its read.
ReadsOn(s, r) == handleLoop(s, r) /\ UNCHANGED vars

\* C12: of an events stream response the two lists decide.  Both or neither:
\* the handler exits with the error, status as it was, nothing emitted.
\* Full events only: the status becomes Useless and the handler's next step
\* is the send of its one record.  Identifiers only: nothing changes and
\* the handler reads on.
C12_StreamResponseOutcome ==
    /\ [][\A s \in Sessions : pc[s] = "loop" =>
            /\ \A r \in ChunkReads(0, 0) \cup ChunkReads(1, 1) :
                  handleLoop(s, r) =>
                      /\ pc'[s] = "done" /\ ret'[s] = "errEitherEventsOrHashes"
                      /\ Status'[s] = Status[s]
                      /\ emitted' = emitted /\ nodes' = nodes /\ consumed' = consumed
            /\ \A r \in ChunkReads(0, 1) :
                  handleLoop(s, r) =>
                      /\ Status'[s] = PeerUseless /\ pc'[s] = "send"
                      /\ emitted' = emitted]_vars
    /\ [][\A s \in Sessions : pc[s] = "send" /\ pc'[s] # "send" =>
            /\ emitted'[s] = emitted[s] + 1
            /\ pc'[s] = "done" /\ ret'[s] = "nil"]_vars
    /\ [](\A s \in Sessions : pc[s] = "loop" /\ Alive =>
            \A r \in ChunkReads(1, 0) : ENABLED ReadsOn(s, r))

\* a session made useless by a stream response with events has sent its
\* record
C12_Witness ==
    \E s \in Sessions :
        /\ Status[s] = PeerUseless /\ progress[s] = ZeroProgress
        /\ pc[s] = "done" /\ ret[s] = "nil" /\ emitted[s] = 1

\* An epoch record whose rules name another network than the dataset.
Foreign(g, er) ==
    \/ er.EpochState.Rules.NetworkID # g.NetworkID
    \/ er.EpochState.Rules.Name # g.NetworkName

\* C13: LoadGenesis panics exactly when the dataset has no epoch record or
\* some epoch record's rules carry another network ID or name than the
\* dataset declares; after a panic the backend's Progress, NodeInfo, rules
\* and chain config are unset; after a return Progress is the epoch, last
\* block index and last block atropos of the first epoch record.
C13_LoadGenesisContract ==
    loadPc # "start" =>
        /\ loadPc = "panicked" <=>
              \/ genesis.Epochs = <<>>
              \/ \E i \in DOMAIN genesis.Epochs : Foreign(genesis, genesis.Epochs[i])
        /\ loadPc = "panicked" =>
              /\ ~Alive
              /\ Progress = ZeroProgress /\ NodeInfo = NilNodeInfo
              /\ Opera = NilRules /\ Chain = NilChain
        /\ loadPc = "done" =>
              /\ Alive
              /\ Progress =
                    [Epoch |-> genesis.Epochs[1].EpochState.Epoch,
                     LastBlockIdx |-> genesis.Epochs[1].BlockState.LastBlock.Idx,
                     LastBlockAtropos |-> genesis.Epochs[1].BlockState.LastBlock.Atropos]

\* a dataset of two records of the declared network, differing in epoch and
\* last block, has been loaded
C13_Witness ==
    /\ loadPc = "done"
    /\ Len(genesis.Epochs) = 2
    /\ genesis.Epochs[1].EpochState.Epoch # genesis.Epochs[2].EpochState.Epoch
    /\ genesis.Epochs[1].BlockState # genesis.Epochs[2].BlockState
    /\ Progress.Epoch = genesis.Epochs[1].EpochState.Epoch

\* The step of session s is its return as a useless peer from the
\* pre-filter: no registration, no read, no record.
FilteredOut(s) ==
    /\ pc'[s] = "done" /\ ret'[s] = "DiscUselessPeer"
    /\ peers' = peers
    /\ Status'[s] = Status[s]
    /\ emitted' = emitted /\ nodes' = nodes /\ consumed' = consumed

\* C14, as the claim states it: a peer is disconnected as useless before
\* the message loop exactly when its name lacks the application identifier
\* and it is not trusted and it is on the discovery-ban list.
C14_FilterWhenAllThree ==
    [][\A s \in Sessions : pc[s] = "handle" =>
          \A banned, opera, trusted, hsOk \in BOOLEAN :
              handleStart(s, banned, opera, trusted, hsOk) =>
                  (FilteredOut(s) <=> (~opera /\ ~trusted /\ banned))]_vars

\* C14, amended: a peer is disconnected as useless before the message loop
\* (no registration, no record) exactly when it is not trusted and either
\* its name lacks the application identifier or it is on the
\* discovery-ban list.
C14_FilterWhenUntrustedAndEither ==
    [][\A s \in Sessions : pc[s] = "handle" =>
          \A banned, opera, trusted, hsOk \in BOOLEAN :
              handleStart(s, banned, opera, trusted, hsOk) =>
                  /\ FilteredOut(s) <=> (~trusted /\ (~opera \/ banned))
                  /\ ret'[s] = "DiscUselessPeer" => FilteredOut(s)]_vars

C14_Witness ==
    \E s \in Sessions :
        /\ pc[s] = "done" /\ ret[s] = "DiscUselessPeer"
        /\ s \notin peers /\ emitted[s] = 0 /\ Status[s] = PeerUnknown

\* C15: a Run invocation that makes its select on the quit signal when
\* Close() has closed it returns DiscQuitting in that step: the handler is
\* not counted in, nothing is registered, read or emitted; and a session
\* that returned DiscQuitting never did any of it.
C15_QuitBeforeHandshake ==
    /\ [][\A s \in Sessions :
            pc[s] = "select" /\ quitSync = "closed" /\ pc'[s] # pc[s] =>
                /\ pc'[s] = "done" /\ ret'[s] = "DiscQuitting"
                /\ wg' = wg /\ peers' = peers
                /\ Status'[s] = PeerUnknown /\ progress'[s] = ZeroProgress
                /\ emitted' = emitted /\ nodes' = nodes /\ consumed' = consumed]_vars
    /\ [](\A s \in Sessions : ret[s] = "DiscQuitting" =>
            /\ pc[s] = "done" /\ s \notin peers
            /\ Status[s] = PeerUnknown /\ progress[s] = ZeroProgress
            /\ emitted[s] = 0 /\ consumed[s] = 0)

C15_Witness ==
    \E s \in Sessions :
        /\ quitSync = "closed" /\ pc[s] = "done" /\ ret[s] = "DiscQuitting"
        /\ Status[s] = PeerUnknown /\ emitted[s] = 0

\* the step places a record of session s on the output queue
Places(s) == emitted'[s] > emitted[s]

Registered == {s \in Sessions : pc[s] \in {"loop", "send"}}

\* C18: the registry holds exactly the sessions whose handler has
\* registered and has not yet exited, under distinct identifiers; when no
\* handler is running the registry is empty.
C18_RegistryIsLiveHandlers ==
    /\ peers = Registered
    /\ \A s, t \in peers : id[s] = id[t] => s = t
    /\ \A s \in peers : id[s] # NoNode
    /\ (\A s \in Sessions : pc[s] \in {"idle", "done"}) => peers = {}

\* one registered handler has exited after its send, one on an error, and
\* the registry is empty
C18_Witness ==
    \E a, b \in Sessions :
        /\ pc[a] = "done" /\ ret[a] = "nil" /\ emitted[a] = 1
        /\ pc[b] = "done" /\ ret[b] \in Errors
        /\ peers = {}

\* The reads of a well-formed message of an observed-only type: admissible
\* size, and for the three list messages a decodable list of 1 to
\* hardLimitItems items.
ObservedReads ==
    {r \in ReadResults :
        /\ r.ok /\ r.msg.Size <= protocolMaxMsgSize
        /\ \/ r.msg.Code \in PlainCodes
           \/ /\ r.msg.Code \in ListCodes
              /\ r.msg.Payload.Decodes
              /\ r.msg.Payload.Items \in 1..hardLimitItems}

\* C19: in every state in which a handler is at its read, a well-formed
\* message of an observed-only type can be handled, and handling it leaves
\* every variable as it was (status, progress, registry, queue, records
\* emitted), the handler being at its read again.
C19_ObservedOnlyIsFrame ==
    \A s \in Sessions : pc[s] = "loop" /\ Alive =>
        \A r \in ObservedReads :
            /\ handleMsg([Status |-> Status[s], progress |-> progress[s]], r)
                  = [Status |-> Status[s], progress |-> progress[s], err |-> "nil"]
            /\ ENABLED ReadsOn(s, r)

\* two handlers at their read, both registered, nothing emitted
C19_Witness ==
    /\ \A s \in Sessions : pc[s] = "loop" /\ s \in peers /\ emitted[s] = 0
    /\ Alive

\* C17: a handler at its send (its status is terminal) is never blocked for
\* good: while the process lives the queue has room or the aggregation
\* loop, its only receiver, is still running.  (Once the loop has exited
\* nothing receives from the queue any more.)
C17_SendNeverStuck ==
    \A s \in Sessions :
        pc[s] = "send" /\ Alive => Len(nodes) < workers \/ aggPc = "loop"

\* C17 as a progress property: a handler at its send eventually completes
\* it and exits, unless the process has ended.
C17_SendCompletes ==
    \A s \in Sessions : (pc[s] = "send") ~> (pc[s] = "done" \/ ~Alive)

\* C20: once Stop() has been called, Close() and Stop() return; and once
\* Stop() has returned the aggregation loop exits, unless Stop() is called
\* once more.
C20_StopTerminates ==
    /\ (stopCalls >= 1) ~> (CloseReturned /\ StopReturned)
    /\ StopReturned ~> (aggPc = "exited" \/ stopCalls > 1)

\* Stop() has returned and the loop has exited, after a handler was
\* unblocked from its read by the teardown and another completed its send
C20_Witness ==
    /\ StopReturned /\ aggPc = "exited" /\ wg = 0
    /\ \E a, b \in Sessions :
          /\ pc[a] = "done" /\ ret[a] = "ErrRead"
          /\ pc[b] = "done" /\ ret[b] = "nil" /\ emitted[b] = 1

====
